---------------------------- MODULE Spec2Model ----------------------------
(***************************************************************************)
(* Model of ferry_risk_streamlit.py: the risk_for_date pipeline            *)
(*   fetch_anz232_block -> parse_periods_from_block ->                     *)
(*   choose_period_for_date -> extract_wind_seas_period ->                 *)
(*   predict_ferry_run                                                     *)
(* and each of its stages as a function of its own inputs.                 *)
(*                                                                         *)
(* Real numbers are fixed-point integers in units of 1/Scale, so 4.5 ft is *)
(* 45000 and a prob_run of 0.90 is 9000.  Text is TLA+ strings, scanned    *)
(* character by character the way the regular expressions scan it.         *)
(***************************************************************************)
EXTENDS Integers, Sequences, FiniteSets, TLC

VARIABLES
    pc,                  \* position in risk_for_date / the stage under study
    departure_date,      \* date_obj, as its date.weekday(): 0 is Monday
    time_obj,            \* <<hour, minute>>, <<>> where no time is given
    tod_hour,            \* <<>> for None, else <<hours in fixed point>>
    cleaned,             \* the cleaned document, as its lines
    block,               \* the Nantucket Sound block, as its lines
    idx,                 \* index of the next line of the parse loop
    started,             \* parse loop: heading seen
    current_label,       \* <<>> for None, else <<label>>
    current_body_lines,  \* body lines of the label being accumulated
    periods,             \* sequence of <<label, body>>
    chosen,              \* <<>> or <<label, body>>
    phrases,             \* the sentences the body under study is made of
    meas,                \* <<>> or <<seas_ft, wspd_kt, gust_kt, dpd_s>>
    result,              \* <<>> or <<prob_run, prob_cancel, band>>
    error                \* "" or the message of the exception raised

vars == <<pc, departure_date, time_obj, tod_hour, cleaned, block, idx, started,
          current_label, current_body_lines, periods, chosen, phrases, meas,
          result, error>>

\* given to the stage under study and never assigned by it
given == <<departure_date, time_obj, phrases>>

parse_state == <<idx, started, current_label, current_body_lines>>

---------------------------------------------------------------------------
(* Fixed point *)

Scale == 100 * 100

Fx(n) == n * Scale

\* a value given in tenths: Tenths(45) is 4.5
Tenths(n) == n * (Scale \div 10)

Max2(a, b) == IF a >= b THEN a ELSE b

Min2(a, b) == IF a <= b THEN a ELSE b

---------------------------------------------------------------------------
(* Text: Python str and re primitives over TLA+ strings *)

UpperAlpha == "ABCDEFGHIJKLMNOPQRSTUVWXYZ"

LowerAlpha == "abcdefghijklmnopqrstuvwxyz"

DigitChars == "0123456789"

\* the i-th character, "" beyond either end
Ch(s, i) == IF 1 <= i /\ i <= Len(s) THEN SubSeq(s, i, i) ELSE ""

UpperSet == {Ch(UpperAlpha, k) : k \in 1..26}

LowerSet == {Ch(LowerAlpha, k) : k \in 1..26}

DigitSet == {Ch(DigitChars, k) : k \in 1..10}

IsDigitAt(s, i) == Ch(s, i) \in DigitSet

\* \s : the texts here hold no other white space than the blank
IsSpaceAt(s, i) == Ch(s, i) = " "

DigitVal(c) == (CHOOSE k \in 1..10 : Ch(DigitChars, k) = c) - 1

\* int() of a string of digits
RECURSIVE ToInt(_)
ToInt(s) ==
    IF s = "" THEN 0
    ELSE ToInt(SubSeq(s, 1, Len(s) - 1)) * 10 + DigitVal(Ch(s, Len(s)))

ToLowerCh(c) ==
    IF c \in UpperSet
    THEN Ch(LowerAlpha, CHOOSE k \in 1..26 : Ch(UpperAlpha, k) = c)
    ELSE c

ToUpperCh(c) ==
    IF c \in LowerSet
    THEN Ch(UpperAlpha, CHOOSE k \in 1..26 : Ch(LowerAlpha, k) = c)
    ELSE c

\* str.upper()
RECURSIVE Upper(_)
Upper(s) ==
    IF s = "" THEN ""
    ELSE ToUpperCh(Ch(s, 1)) \o Upper(SubSeq(s, 2, Len(s)))

\* str.startswith
StartsWith(s, prefix) ==
    Len(prefix) <= Len(s) /\ SubSeq(s, 1, Len(prefix)) = prefix

\* the literal lit stands at position i of s
LitAt(s, i, lit) ==
    i >= 1 /\ i + Len(lit) - 1 <= Len(s)
    /\ SubSeq(s, i, i + Len(lit) - 1) = lit

\* the same under re.IGNORECASE; lit is given in lower case
LitAtCI(s, i, lit) ==
    i >= 1 /\ i + Len(lit) - 1 <= Len(s)
    /\ \A k \in 1..Len(lit) : ToLowerCh(Ch(s, i + k - 1)) = Ch(lit, k)

\* sub in s
Contains(s, sub) == \E i \in 1..(Len(s) - Len(sub) + 1) : LitAt(s, i, sub)

\* str.rstrip() and str.strip()
RECURSIVE RStrip(_)
RStrip(s) ==
    IF s # "" /\ IsSpaceAt(s, Len(s)) THEN RStrip(SubSeq(s, 1, Len(s) - 1))
    ELSE s

RECURSIVE LStrip(_)
LStrip(s) ==
    IF s # "" /\ IsSpaceAt(s, 1) THEN LStrip(SubSeq(s, 2, Len(s))) ELSE s

Strip(s) == RStrip(LStrip(s))

\* str.isupper(): some cased character, and none of them lower case
IsUpper(s) ==
    /\ \E i \in 1..Len(s) : Ch(s, i) \in UpperSet
    /\ \A i \in 1..Len(s) : Ch(s, i) \notin LowerSet

\* the position after \s* read from i
RECURSIVE SkipSpaces(_, _)
SkipSpaces(s, i) == IF IsSpaceAt(s, i) THEN SkipSpaces(s, i + 1) ELSE i

\* " ".join(seq)
RECURSIVE JoinSpace(_)
JoinSpace(seq) ==
    IF seq = <<>> THEN ""
    ELSE IF Len(seq) = 1 THEN seq[1]
    ELSE seq[1] \o " " \o JoinSpace(Tail(seq))

---------------------------------------------------------------------------
(* Regular expressions: a pattern is a sequence of atoms, matched with re's *)
(* backtracking order (greedy first, the alternatives left to right)       *)

Atom(k, s, p) == [k |-> k, s |-> s, p |-> p]

\* a literal
Lit(s) == Atom("lit", s, <<>>)

\* (\d{1,2}), captured
D12 == Atom("digits", "capture", <<1, 2>>)

\* \d{3,4}
D34 == Atom("digits", "", <<3, 4>>)

\* \s* and \s+
WS0 == Atom("spaces", "", <<0>>)

WS1 == Atom("spaces", "", <<1>>)

\* (?:p)?
Opt(p) == Atom("alt", "", <<p, <<>>>>)

\* (?:p|q)
Alt(p, q) == Atom("alt", "", <<p, q>>)

\* how many digits stand at i, counted up to max
RECURSIVE DigitRun(_, _, _)
DigitRun(t, i, max) ==
    IF max > 0 /\ IsDigitAt(t, i) THEN 1 + DigitRun(t, i + 1, max - 1) ELSE 0

\* a if it is a match, else b
OrElse(a, b) == IF a # <<>> THEN a ELSE b

\* A match is <<>> for none, else <<captures>>.
RECURSIVE MatchHere(_, _, _, _, _)
RECURSIVE MatchAtom(_, _, _, _, _, _)
RECURSIVE MatchDigits(_, _, _, _, _, _, _, _)
RECURSIVE MatchSpaces(_, _, _, _, _, _, _)
RECURSIVE MatchAlt(_, _, _, _, _, _)

\* pat matched at position i, with caps captured so far
MatchHere(pat, ci, t, i, caps) ==
    IF pat = <<>> THEN <<caps>>
    ELSE MatchAtom(Head(pat), Tail(pat), ci, t, i, caps)

MatchAtom(a, rest, ci, t, i, caps) ==
    CASE a.k = "lit" ->
           IF (IF ci THEN LitAtCI(t, i, a.s) ELSE LitAt(t, i, a.s))
           THEN MatchHere(rest, ci, t, i + Len(a.s), caps)
           ELSE <<>>
      [] a.k = "digits" ->
           MatchDigits(DigitRun(t, i, a.p[2]), a.p[1], a.s = "capture", rest,
                       ci, t, i, caps)
      [] a.k = "spaces" ->
           MatchSpaces(SkipSpaces(t, i), i + a.p[1], rest, ci, t, i, caps)
      [] a.k = "alt" -> MatchAlt(a.p, rest, ci, t, i, caps)

\* n digits taken at i, then n - 1, ... down to min
MatchDigits(n, min, capture, rest, ci, t, i, caps) ==
    IF n < min THEN <<>>
    ELSE OrElse(MatchHere(rest, ci, t, i + n,
                          IF capture
                          THEN Append(caps, ToInt(SubSeq(t, i, i + n - 1)))
                          ELSE caps),
                MatchDigits(n - 1, min, capture, rest, ci, t, i, caps))

\* the white space taken up to j, then up to j - 1, ... down to lo
MatchSpaces(j, lo, rest, ci, t, i, caps) ==
    IF j < lo THEN <<>>
    ELSE OrElse(MatchHere(rest, ci, t, j, caps),
                MatchSpaces(j - 1, lo, rest, ci, t, i, caps))

\* the alternatives in turn
MatchAlt(alts, rest, ci, t, i, caps) ==
    IF alts = <<>> THEN <<>>
    ELSE OrElse(MatchHere(Head(alts) \o rest, ci, t, i, caps),
                MatchAlt(Tail(alts), rest, ci, t, i, caps))

\* the match at the leftmost of the positions hits
MatchLeftmost(pat, ci, t, hits) ==
    IF hits = {} THEN <<>>
    ELSE MatchHere(pat, ci, t, CHOOSE i \in hits : \A j \in hits : i <= j, <<>>)

\* the match at the leftmost position that has one
SearchFrom(pat, ci, t) ==
    MatchLeftmost(pat, ci, t,
                  {i \in 1..(Len(t) + 1) : MatchHere(pat, ci, t, i, <<>>) # <<>>})

\* re.search(pattern, text) and re.search(pattern, text, re.IGNORECASE)
Search(pat, t) == SearchFrom(pat, FALSE, t)

SearchIgnoreCase(pat, t) == SearchFrom(pat, TRUE, t)

\* m.group(n) as an integer
Group(m, n) == m[1][n]

---------------------------------------------------------------------------
(* 1. Core risk model: predict_ferry_run *)

WavePenalty(wvht_ft) ==
    (IF wvht_ft > Fx(4) THEN (wvht_ft - Fx(4)) * 6 ELSE 0)
    + (IF wvht_ft > Fx(6) THEN (wvht_ft - Fx(6)) * 8 ELSE 0)

WindPenalty(wspd_kt, gust_kt) ==
    (IF wspd_kt > Fx(22) THEN ((wspd_kt - Fx(22)) * 15) \div 10 ELSE 0)
    + (IF gust_kt > Fx(30) THEN (gust_kt - Fx(30)) * 1 ELSE 0)

PeriodPenaltyShortOnly(dpd_s) ==
    IF dpd_s < Fx(6) THEN (Fx(6) - dpd_s) * 5 ELSE 0

PeriodPenalty(dpd_s) ==
    IF dpd_s < Fx(6) THEN (Fx(6) - dpd_s) * 5
    ELSE IF dpd_s < Fx(7) THEN (Fx(7) - dpd_s) * 2
    ELSE 0

TodPenalty(tod) ==
    IF tod # <<>>
       /\ \/ (Fx(5) <= tod[1] /\ tod[1] <= Fx(8))
          \/ (Fx(18) <= tod[1] /\ tod[1] <= Fx(22))
    THEN Fx(3)
    ELSE 0

RawScore(wvht_ft, wspd_kt, gust_kt, dpd_s, tod) ==
    Fx(90) - WavePenalty(wvht_ft) - WindPenalty(wspd_kt, gust_kt)
           - PeriodPenalty(dpd_s) - TodPenalty(tod)

ClampNoFloor(score) == Min2(Fx(99), score)

Clamp(score) == Max2(Fx(1), Min2(Fx(99), score))

Score(wvht_ft, wspd_kt, gust_kt, dpd_s, tod) ==
    Clamp(RawScore(wvht_ft, wspd_kt, gust_kt, dpd_s, tod))

BandOpenEdges(prob_run) ==
    IF prob_run > Tenths(9) THEN "LOW"
    ELSE IF prob_run > Tenths(7) THEN "MODERATE"
    ELSE IF prob_run > Tenths(4) THEN "HIGH"
    ELSE "VERY HIGH"

Band(prob_run) ==
    IF prob_run >= Tenths(9) THEN "LOW"
    ELSE IF prob_run >= Tenths(7) THEN "MODERATE"
    ELSE IF prob_run >= Tenths(4) THEN "HIGH"
    ELSE "VERY HIGH"

predict_ferry_run(wvht_ft, wspd_kt, gust_kt, dpd_s, tod) ==
    LET score    == Score(wvht_ft, wspd_kt, gust_kt, dpd_s, tod)
        prob_run == score \div 100
    IN  <<prob_run, Fx(1) - prob_run, Band(prob_run)>>

---------------------------------------------------------------------------
(* 2. fetch_anz232_block: the block of the cleaned document *)

Anchor == "Nantucket Sound"

HasAnchor(lines) == \E i \in 1..Len(lines) : Contains(lines[i], Anchor)

\* the text from the first occurrence of the anchor on (line 96)
FromAnchor(lines) ==
    LET a == CHOOSE i \in 1..Len(lines) :
                /\ Contains(lines[i], Anchor)
                /\ \A j \in 1..(i - 1) : ~Contains(lines[j], Anchor)
        c == CHOOSE i \in 1..Len(lines[a]) :
                /\ LitAt(lines[a], i, Anchor)
                /\ \A j \in 1..(i - 1) : ~LitAt(lines[a], j, Anchor)
    IN  <<SubSeq(lines[a], c, Len(lines[a]))>> \o SubSeq(lines, a + 1, Len(lines))

\* [A-Z][A-Za-z ]+Sound spanning a whole line
IsSoundHeading(ln) ==
    /\ Len(ln) >= 7
    /\ Ch(ln, 1) \in UpperSet
    /\ \A i \in 2..Len(ln) : Ch(ln, i) \in UpperSet \cup LowerSet \cup {" "}
    /\ LitAt(ln, Len(ln) - 4, "Sound")

\* str.strip() of a text given as its lines
RECURSIVE StripLines(_)
StripLines(lines) ==
    IF lines = <<>> THEN <<>>
    ELSE IF Strip(lines[Len(lines)]) = ""
    THEN StripLines(SubSeq(lines, 1, Len(lines) - 1))
    ELSE IF Strip(lines[1]) = "" THEN StripLines(Tail(lines))
    ELSE IF Len(lines) = 1 THEN <<Strip(lines[1])>>
    ELSE <<LStrip(lines[1])>> \o SubSeq(lines, 2, Len(lines) - 1)
         \o <<RStrip(lines[Len(lines)])>>

\* lines 96-104.  re.search(r"\n[A-Z][A-Za-z ]+Sound\n", sub[1:]) asks for a
\* line break on both sides: neither the first nor the last line can match.
RegionBlock(lines) ==
    LET sub == FromAnchor(lines)
        sib == {j \in 2..(Len(sub) - 1) : IsSoundHeading(sub[j])}
    IN  IF sib = {} THEN StripLines(sub)
        ELSE StripLines(SubSeq(sub, 1, (CHOOSE j \in sib : \A k \in sib : j <= k) - 1))

---------------------------------------------------------------------------
(* 3. parse_periods_from_block *)

\* r"\d{3,4}\s+AM|PM": the alternation binds loosest, so the pattern is
\* (\d{3,4}\s+AM) | (PM)
TimestampPattern == <<Alt(<<D34, WS1, Lit("AM")>>, <<Lit("PM")>>)>>

\* line 142
SearchTimestamp(ln) == Search(TimestampPattern, ln) # <<>>

HasWarning(ln) == Contains(ln, "WARNING") \/ Contains(ln, "WATCH")

\* the lines the loop passes over once the heading is seen (lines 139-145)
IsSkipped(ln) ==
    \/ Strip(ln) = ""
    \/ SearchTimestamp(ln)
    \/ HasWarning(ln)

\* line 147
IsLabelLine(ln) == IsUpper(Strip(ln)) /\ Len(Strip(ln)) <= 20

\* line 127
BodyText(body_lines) ==
    Strip(JoinSpace([k \in 1..Len(body_lines) |-> Strip(body_lines[k])]))

FlushAnyLabel(ps, label, body_lines) ==
    IF label # <<>> /\ label[1] # ""
    THEN Append(ps, <<label[1], BodyText(body_lines)>>)
    ELSE ps

\* flush_current: the periods after it (it also resets label and body)
flush_current(ps, label, body_lines) ==
    IF (label # <<>> /\ label[1] # "") /\ body_lines # <<>>
    THEN Append(ps, <<label[1], BodyText(body_lines)>>)
    ELSE ps

\* line 118
RStripped(lines) == [k \in 1..Len(lines) |-> RStrip(lines[k])]

ParseOutcomeNoRaise(ps) == "choose"

\* lines 157-160: where parse_periods_from_block leaves its caller
ParseOutcome(ps) == IF ps = <<>> THEN "failed" ELSE "choose"

---------------------------------------------------------------------------
(* 4. extract_wind_seas_period *)

ToOrDash == Alt(<<Lit("to")>>, <<Lit("-")>>)

\* r"(\d{1,2})\s*(?:to|-)\s*(\d{1,2})\s*kt"
WindRangePattern == <<D12, WS0, ToOrDash, WS0, D12, WS0, Lit("kt")>>

\* r"(\d{1,2})\s*kt"
WindSinglePattern == <<D12, WS0, Lit("kt")>>

\* r"gusts?\s+(?:up to\s*)?(\d{1,2})\s*kt"
GustPattern ==
    <<Lit("gust"), Opt(<<Lit("s")>>), WS1, Opt(<<Lit("up to"), WS0>>), D12,
      WS0, Lit("kt")>>

\* r"seas?\s+(\d{1,2})\s*(?:to|-)\s*(\d{1,2})\s*ft"
SeasRangePattern ==
    <<Lit("sea"), Opt(<<Lit("s")>>), WS1, D12, WS0, ToOrDash, WS0, D12, WS0,
      Lit("ft")>>

\* r"seas?\s+(\d{1,2})\s*ft"
SeasSinglePattern == <<Lit("sea"), Opt(<<Lit("s")>>), WS1, D12, WS0, Lit("ft")>>

\* r"at\s+(\d{1,2})\s*seconds"
PeriodPattern == <<Lit("at"), WS1, D12, WS0, Lit("seconds")>>

\* Each field before its default: <<>> for None, else <<value>>.

\* lines 186-188
WindSingle(m) == IF m # <<>> THEN <<Fx(Group(m, 1))>> ELSE <<>>

WindSingleFirst(text) == WindSingle(SearchIgnoreCase(WindSinglePattern, text))

\* lines 182-188
WindRangeOrSingle(m, text) ==
    IF m # <<>> THEN <<Fx(Max2(Group(m, 1), Group(m, 2)))>>
    ELSE WindSingle(SearchIgnoreCase(WindSinglePattern, text))

\* lines 180-188
WindOf(text) == WindRangeOrSingle(SearchIgnoreCase(WindRangePattern, text), text)

\* lines 192-193
GustGroup(mg) == IF mg # <<>> THEN <<Fx(Group(mg, 1))>> ELSE <<>>

\* lines 190-193
GustOf(text) == GustGroup(SearchIgnoreCase(GustPattern, text))

\* lines 201-203
SeasSingle(ms) == IF ms # <<>> THEN <<Fx(Group(ms, 1))>> ELSE <<>>

\* lines 197-203
SeasRangeOrSingle(ms, text) ==
    IF ms # <<>> THEN <<Fx(Group(ms, 1) + Group(ms, 2)) \div 2>>
    ELSE SeasSingle(SearchIgnoreCase(SeasSinglePattern, text))

\* lines 195-203
SeasOf(text) == SeasRangeOrSingle(SearchIgnoreCase(SeasRangePattern, text), text)

\* lines 207-208
PeriodGroup(mp) == IF mp # <<>> THEN <<Fx(Group(mp, 1))>> ELSE <<>>

\* lines 205-208
PeriodOf(text) == PeriodGroup(SearchIgnoreCase(PeriodPattern, text))

\* v if it is not None, else the default
OrDefault(v, default) == IF v = <<>> THEN default ELSE v[1]

\* lines 210-219, the gust default taken from the wind speed after its own
WithDefaults(seas, wspd, gust, dpd) ==
    <<OrDefault(seas, Fx(4)), wspd, OrDefault(gust, wspd + Fx(5)),
      OrDefault(dpd, Fx(6))>>

\* <<seas, wspd, gust, dpd>>
extract_wind_seas_period(body_text) ==
    WithDefaults(SeasOf(body_text), OrDefault(WindOf(body_text), Fx(20)),
                 GustOf(body_text), PeriodOf(body_text))

---------------------------------------------------------------------------
(* 5. choose_period_for_date *)

\* strftime("%a") by date.weekday()
DayNames == <<"Mon", "Tue", "Wed", "Thu", "Fri", "Sat", "Sun">>

WeekdayAbbrev(date) == SubSeq(Upper(DayNames[date + 1]), 1, 3)

PriorityLabels == <<"TONIGHT", "THIS AFTERNOON", "TODAY">>

\* the first period whose label starts with prefix: <<>> or <<period>>
RECURSIVE FirstStartingWith(_, _)
FirstStartingWith(ps, prefix) ==
    IF ps = <<>> THEN <<>>
    ELSE IF StartsWith(ps[1][1], prefix) THEN <<ps[1]>>
    ELSE FirstStartingWith(Tail(ps), prefix)

\* lines 242-246
RECURSIVE FirstByPriority(_, _)
FirstByPriority(ps, prefs) ==
    IF prefs = <<>> THEN <<>>
    ELSE IF FirstStartingWith(ps, prefs[1]) # <<>>
    THEN FirstStartingWith(ps, prefs[1])
    ELSE FirstByPriority(ps, Tail(prefs))

ChooseIgnoringWeekday(ps, date) ==
    IF FirstByPriority(ps, PriorityLabels) # <<>>
    THEN FirstByPriority(ps, PriorityLabels)[1]
    ELSE ps[1]

choose_period_for_date(ps, date) ==
    IF FirstStartingWith(ps, WeekdayAbbrev(date)) # <<>>
    THEN FirstStartingWith(ps, WeekdayAbbrev(date))[1]
    ELSE IF FirstByPriority(ps, PriorityLabels) # <<>>
    THEN FirstByPriority(ps, PriorityLabels)[1]
    ELSE ps[1]

---------------------------------------------------------------------------
(* 6. risk_for_date, step by step *)

MaxDocLines == 4

\* lines a cleaned KBOX product is made of
DocLines ==
    { "Nantucket Sound", "Vineyard Sound", "TONIGHT", "MON",
      "E winds 10 kt. Seas 2 ft.", "SW winds 22 kt. Seas 4 ft.",
      "W winds 25 to 35 kt. Seas 5 to 7 ft.", "" }

SeqsUpTo(S, n) == UNION {[1..k -> S] : k \in 0..n}

SeqsFrom1(S, n) == UNION {[1..k -> S] : k \in 1..n}

Untouched ==
    /\ tod_hour = <<>>
    /\ cleaned = <<>>
    /\ block = <<>>
    /\ idx = 1
    /\ started = FALSE
    /\ current_label = <<>>
    /\ current_body_lines = <<>>
    /\ periods = <<>>
    /\ chosen = <<>>
    /\ phrases = <<>>
    /\ meas = <<>>
    /\ result = <<>>
    /\ error = ""

Init ==
    /\ pc = "start"
    /\ departure_date \in {0, 4}
    /\ time_obj \in {<<12, 0>>, <<6, 10>>}
    /\ Untouched

\* lines 260-263
Begin ==
    /\ pc = "start"
    /\ tod_hour' = <<Fx(time_obj[1]) + Fx(time_obj[2]) \div 60>>
    /\ pc' = "fetch"
    /\ UNCHANGED <<given, cleaned, block, parse_state, periods, chosen, meas,
                   result, error>>

\* lines 89-91: the request fails, or answers with some document
Fetch ==
    /\ pc = "fetch"
    /\ \/ /\ pc' = "failed"
          /\ error' = "HTTPError"
          /\ UNCHANGED cleaned
       \/ /\ cleaned' \in SeqsUpTo(DocLines, MaxDocLines)
          /\ pc' = "region"
          /\ UNCHANGED error
    /\ UNCHANGED <<given, tod_hour, block, parse_state, periods, chosen, meas,
                   result>>

\* lines 93-104
Region ==
    /\ pc = "region"
    /\ IF ~HasAnchor(cleaned)
       THEN /\ pc' = "failed"
            /\ error' = "Could not find 'Nantucket Sound'"
            /\ UNCHANGED block
       ELSE /\ block' = RegionBlock(cleaned)
            /\ pc' = "parse"
            /\ UNCHANGED error
    /\ UNCHANGED <<given, tod_hour, cleaned, parse_state, periods, chosen,
                   meas, result>>

\* one turn of the loop of lines 133-153
ParseLine ==
    /\ pc = "parse"
    /\ idx <= Len(block)
    /\ LET ln == RStripped(block)[idx] IN
       IF ~started
       THEN /\ started' = Contains(ln, Anchor)
            /\ UNCHANGED <<current_label, current_body_lines, periods>>
       ELSE IF IsSkipped(ln)
       THEN UNCHANGED <<started, current_label, current_body_lines, periods>>
       ELSE IF IsLabelLine(ln)
       THEN /\ periods' = flush_current(periods, current_label,
                                        current_body_lines)
            /\ current_label' = <<Strip(ln)>>
            /\ current_body_lines' = <<>>
            /\ UNCHANGED started
       ELSE IF current_label # <<>>
       THEN /\ current_body_lines' = Append(current_body_lines, ln)
            /\ UNCHANGED <<started, current_label, periods>>
       ELSE UNCHANGED <<started, current_label, current_body_lines, periods>>
    /\ idx' = idx + 1
    /\ UNCHANGED <<pc, given, tod_hour, cleaned, block, chosen, meas, result,
                   error>>

\* lines 155-160: the last flush, then the list or the RuntimeError
ParseEnd ==
    /\ pc = "parse"
    /\ idx > Len(block)
    /\ LET ps == flush_current(periods, current_label, current_body_lines) IN
       /\ periods' = ps
       /\ pc' = ParseOutcome(ps)
       /\ error' = IF ParseOutcome(ps) = "failed"
                   THEN "No forecast periods parsed" ELSE error
    /\ current_label' = <<>>
    /\ current_body_lines' = <<>>
    /\ UNCHANGED <<given, tod_hour, cleaned, block, idx, started, chosen, meas,
                   result>>

\* line 267
Choose ==
    /\ pc = "choose"
    /\ chosen' = choose_period_for_date(periods, departure_date)
    /\ pc' = "extract"
    /\ UNCHANGED <<given, tod_hour, cleaned, block, parse_state, periods, meas,
                   result, error>>

\* line 268
Extract ==
    /\ pc = "extract"
    /\ meas' = extract_wind_seas_period(chosen[2])
    /\ pc' = "predict"
    /\ UNCHANGED <<given, tod_hour, cleaned, block, parse_state, periods,
                   chosen, result, error>>

\* lines 270-276
Predict ==
    /\ pc = "predict"
    /\ result' = predict_ferry_run(meas[1], meas[2], meas[3], meas[4], tod_hour)
    /\ pc' = "return"
    /\ UNCHANGED <<given, tod_hour, cleaned, block, parse_state, periods,
                   chosen, meas, error>>

\* lines 278-290: the record is made of values already computed
Return ==
    /\ pc = "return"
    /\ pc' = "done"
    /\ UNCHANGED <<given, tod_hour, cleaned, block, parse_state, periods,
                   chosen, meas, result, error>>

Next ==
    \/ Begin
    \/ Fetch
    \/ Region
    \/ ParseLine
    \/ ParseEnd
    \/ Choose
    \/ Extract
    \/ Predict
    \/ Return

Spec == Init /\ [][Next]_vars

PastParse == pc \in {"choose", "extract", "predict", "return", "done"}

\* the body states one wind speed of at most 22 kt and seas of at most 4 ft,
\* and holds no gust phrase and no 'at N seconds' phrase
BenignBody(body) ==
    /\ SearchIgnoreCase(WindRangePattern, body) = <<>>
    /\ SearchIgnoreCase(WindSinglePattern, body) # <<>>
    /\ \A i \in 1..Len(body) :
          LET m == MatchHere(WindSinglePattern, TRUE, body, i, <<>>)
          IN  m # <<>> => Group(m, 1) <= 22
    /\ SearchIgnoreCase(SeasRangePattern, body) = <<>>
    /\ SearchIgnoreCase(SeasSinglePattern, body) # <<>>
    /\ \A i \in 1..Len(body) :
          LET m == MatchHere(SeasSinglePattern, TRUE, body, i, <<>>)
          IN  m # <<>> => Group(m, 1) <= 4
    /\ SearchIgnoreCase(GustPattern, body) = <<>>
    /\ SearchIgnoreCase(PeriodPattern, body) = <<>>

OutsideTodWindows(tod) ==
    /\ tod # <<>>
    /\ ~(Fx(5) <= tod[1] /\ tod[1] <= Fx(8))
    /\ ~(Fx(18) <= tod[1] /\ tod[1] <= Fx(22))

BenignRun ==
    /\ pc = "done"
    /\ BenignBody(chosen[2])
    /\ OutsideTodWindows(tod_hour)

\* C1 as stated: a benign body at a time of day outside both windows gives
\* prob_run = 0.90 and band LOW.
C1_BenignIsBase == BenignRun => result[1] = Tenths(9) /\ result[3] = "LOW"

\* C1 amended: a benign body at a time of day outside both windows gives
\* prob_run = 0.88 and band MODERATE: with no 'at N seconds' phrase the
\* period defaults to 6.0 s, which costs 2.0 points.
C1_BenignIsBaseLessPeriod ==
    BenignRun => result[1] = Fx(88) \div 100 /\ result[3] = "MODERATE"

\* the document of the example, at 12:00
C1_Witness ==
    /\ BenignRun
    /\ chosen[2] = "E winds 10 kt. Seas 2 ft."
    /\ time_obj = <<12, 0>>

\* C9: a missing anchor and an empty period list each raise before a period
\* is chosen, measured or scored; nothing past the segmenter raises, and a
\* body lacking a phrase gets the defaults.
C9_FatalBeforeMeasure ==
    /\ pc = "failed" => chosen = <<>> /\ meas = <<>> /\ result = <<>>
    /\ (pc = "parse" \/ PastParse \/ error = "No forecast periods parsed")
          => HasAnchor(cleaned)
    /\ error = "Could not find 'Nantucket Sound'"
          => pc = "failed" /\ ~HasAnchor(cleaned) /\ periods = <<>>
    /\ PastParse => periods # <<>> /\ error = ""
    /\ (pc = "failed" /\ error = "No forecast periods parsed")
          => periods = <<>>
    /\ pc \in {"predict", "return", "done"} => Len(meas) = 4
    /\ pc \in {"return", "done"} => Len(result) = 3

\* the anchor was found and the block held no period
C9_Witness ==
    /\ pc = "failed"
    /\ error = "No forecast periods parsed"
    /\ HasAnchor(cleaned)
    /\ Len(block) > 1

---------------------------------------------------------------------------
(* The scorer on its own inputs *)

\* sample points in tenths: each threshold, its neighbours, and extremes
SeasSamples == {-50, 0, 39, 40, 41, 45, 59, 60, 61, 80, 990}

WindSamples == {0, 219, 220, 221, 300, 990}

GustSamples == {0, 299, 300, 301, 990}

PeriodSamples == {-100, 0, 20, 40, 56, 59, 60, 61, 66, 69, 70, 71, 200}

TodSamples == {<<>>, <<Tenths(0)>>, <<Tenths(49)>>, <<Tenths(50)>>,
               <<Tenths(80)>>, <<Tenths(81)>>, <<Tenths(120)>>,
               <<Tenths(180)>>, <<Tenths(220)>>, <<Tenths(221)>>}

InitScore ==
    /\ pc = "predict"
    /\ departure_date = 0
    /\ time_obj = <<>>
    /\ tod_hour \in TodSamples
    /\ cleaned = <<>>
    /\ block = <<>>
    /\ idx = 1
    /\ started = FALSE
    /\ current_label = <<>>
    /\ current_body_lines = <<>>
    /\ periods = <<>>
    /\ chosen = <<>>
    /\ phrases = <<>>
    /\ \E s \in SeasSamples, w \in WindSamples, g \in GustSamples,
          p \in PeriodSamples :
          meas = <<Tenths(s), Tenths(w), Tenths(g), Tenths(p)>>
    /\ result = <<>>
    /\ error = ""

NextScore == Predict

SpecScore == InitScore /\ [][NextScore]_vars

Scored == pc = "return" /\ result # <<>>

\* C2: whatever the inputs, prob_run lies in [0.01, 0.99] and
\* prob_cancel = 1 - prob_run.
C2_ProbRange ==
    Scored => /\ Fx(1) \div 100 <= result[1]
              /\ result[1] <= Fx(99) \div 100
              /\ result[2] = Fx(1) - result[1]

\* penalties larger than the whole base score, clamped at 0.01
C2_Witness ==
    /\ Scored
    /\ RawScore(meas[1], meas[2], meas[3], meas[4], tod_hour) < 0
    /\ result[1] = Fx(1) \div 100

\* C3: the score never increases with seas, wind or gust and never
\* decreases with the dominant period, the other inputs held fixed, also
\* between values that are not whole numbers.
C3_Monotone ==
    Scored =>
      /\ \A s \in SeasSamples : Tenths(s) >= meas[1] =>
            Score(Tenths(s), meas[2], meas[3], meas[4], tod_hour)
              <= Score(meas[1], meas[2], meas[3], meas[4], tod_hour)
      /\ \A w \in WindSamples : Tenths(w) >= meas[2] =>
            Score(meas[1], Tenths(w), meas[3], meas[4], tod_hour)
              <= Score(meas[1], meas[2], meas[3], meas[4], tod_hour)
      /\ \A g \in GustSamples : Tenths(g) >= meas[3] =>
            Score(meas[1], meas[2], Tenths(g), meas[4], tod_hour)
              <= Score(meas[1], meas[2], meas[3], meas[4], tod_hour)
      /\ \A p \in PeriodSamples : Tenths(p) >= meas[4] =>
            Score(meas[1], meas[2], meas[3], Tenths(p), tod_hour)
              >= Score(meas[1], meas[2], meas[3], meas[4], tod_hour)

\* C4: the band is decided by prob_run alone, each threshold closed on its
\* lower edge, and is one of the four band names.
C4_BandThresholds ==
    Scored =>
      /\ result[3] \in {"LOW", "MODERATE", "HIGH", "VERY HIGH"}
      /\ (result[3] = "LOW") <=> (result[1] >= Tenths(9))
      /\ (result[3] = "MODERATE")
            <=> (Tenths(7) <= result[1] /\ result[1] < Tenths(9))
      /\ (result[3] = "HIGH")
            <=> (Tenths(4) <= result[1] /\ result[1] < Tenths(7))
      /\ (result[3] = "VERY HIGH") <=> (result[1] < Tenths(4))

\* prob_run exactly on the 0.70 edge, banded MODERATE
C4_Witness ==
    /\ Scored
    /\ result[1] = Tenths(7)
    /\ result[3] = "MODERATE"

---------------------------------------------------------------------------
(* The segmenter on its own inputs *)

MaxLines == 4

BlockLines ==
    { "Nantucket Sound", "", "1030 AM EST Mon Nov 3 2025", "330 PM EST",
      "GALE WARNING IN EFFECT", "TONIGHT", " MON ",
      "W winds 10 kt. ", "Rain in the PM hours." }

InitParse ==
    /\ pc = "parse"
    /\ departure_date = 0
    /\ time_obj = <<>>
    /\ tod_hour = <<>>
    /\ cleaned = <<>>
    /\ block \in SeqsUpTo(BlockLines, MaxLines)
    /\ idx = 1
    /\ started = FALSE
    /\ current_label = <<>>
    /\ current_body_lines = <<>>
    /\ periods = <<>>
    /\ chosen = <<>>
    /\ phrases = <<>>
    /\ meas = <<>>
    /\ result = <<>>
    /\ error = ""

NextParse == ParseLine \/ ParseEnd

SpecParse == InitParse /\ [][NextParse]_vars

ParseDone ==
    \/ pc = "choose"
    \/ pc = "failed" /\ error = "No forecast periods parsed"

\* index of the heading line, Len(lines) + 1 when there is none
HeadingIdx(lines) ==
    IF HasAnchor(lines)
    THEN CHOOSE i \in 1..Len(lines) :
            /\ Contains(lines[i], Anchor)
            /\ \A j \in 1..(i - 1) : ~Contains(lines[j], Anchor)
    ELSE Len(lines) + 1

\* The period list the segmenter's contract describes, read off the lines
\* without scanning: given the indices of the lines passed over, every label
\* line after the heading owns the body lines up to the next label line and
\* is emitted, in document order, iff it owns at least one.
PeriodsByRule(lines, skipped) ==
    LET n == Len(lines)
        h == HeadingIdx(lines)
        IsLab(i) == i > h /\ i \notin skipped /\ IsLabelLine(lines[i])
        IsBody(i) == i > h /\ i \notin skipped /\ ~IsLabelLine(lines[i])
        BodyIdx(i) == {j \in (i + 1)..n :
                          IsBody(j) /\ \A k \in (i + 1)..(j - 1) : ~IsLab(k)}
        Emit == {i \in 1..n : IsLab(i) /\ BodyIdx(i) # {}}
        Nth(k) == CHOOSE i \in Emit : Cardinality({j \in Emit : j < i}) = k - 1
        BodySeq(i) == SelectSeq([j \in 1..n |-> j], LAMBDA j : j \in BodyIdx(i))
        BodyOf(i) == [m \in 1..Len(BodySeq(i)) |-> lines[BodySeq(i)[m]]]
    IN  [k \in 1..Cardinality(Emit) |->
            <<Strip(lines[Nth(k)]), BodyText(BodyOf(Nth(k)))>>]

LabelLinesSeen(lines) ==
    {i \in 1..Len(lines) :
        i > HeadingIdx(lines) /\ ~IsSkipped(lines[i]) /\ IsLabelLine(lines[i])}

GroupedTimestampPattern == <<D34, WS1, Alt(<<Lit("AM")>>, <<Lit("PM")>>)>>

\* blank lines, timestamp lines and WARNING / WATCH lines
IsAdminLine(ln) ==
    \/ Strip(ln) = ""
    \/ Search(GroupedTimestampPattern, ln) # <<>>
    \/ HasWarning(ln)

\* C10: after the heading only blank, timestamp and WARNING / WATCH lines
\* are skipped; any other non-label line met under a label is in that
\* period's body, also a line of prose holding the letters PM.
C10_OnlyAdminLinesSkipped ==
    ParseDone =>
      periods = PeriodsByRule(block,
                              {i \in 1..Len(block) : IsAdminLine(block[i])})

---------------------------------------------------------------------------
(* The extractor on its own inputs *)

MaxPhrases == 3

None == <<>>

\* A sentence of a period body and what it states: kt_range and seas_range
\* are the 'A to B' pairs, kt the number of the first 'N kt' in it, gust,
\* seas and per the numbers of its gust, 'seas N ft' and 'at N seconds'
\* phrases.
Sentence(text, kt_range, kt, gust, seas_range, seas, per) ==
    [text |-> text, kt_range |-> kt_range, kt |-> kt, gust |-> gust,
     seas_range |-> seas_range, seas |-> seas, per |-> per]

Sentences ==
    { Sentence("W winds 25 to 35 kt.", <<25, 35>>, <<35>>, None, None, None, None),
      Sentence("E winds 10 kt.", None, <<10>>, None, None, None, None),
      Sentence("Gusts up to 30 kt.", None, <<30>>, <<30>>, None, None, None),
      Sentence("NW WINDS 15-5 KT WITH GUST 45 KT.",
               <<15, 5>>, <<5>>, <<45>>, None, None, None),
      Sentence("Seas 5 to 7 ft.", None, None, None, <<5, 7>>, None, None),
      Sentence("Seas 2 ft.", None, None, None, None, <<2>>, None),
      Sentence("Wave Detail: W 6 ft at 6 seconds.",
               None, None, None, None, None, <<6>>),
      Sentence("SE swell 1 ft at 0 seconds.",
               None, None, None, None, None, <<0>>),
      Sentence("Rain likely.", None, None, None, None, None, None) }

InitExtract ==
    /\ pc = "extract"
    /\ departure_date = 0
    /\ time_obj = <<>>
    /\ tod_hour = <<>>
    /\ cleaned = <<>>
    /\ block = <<>>
    /\ idx = 1
    /\ started = FALSE
    /\ current_label = <<>>
    /\ current_body_lines = <<>>
    /\ periods = <<>>
    /\ phrases \in SeqsUpTo(Sentences, MaxPhrases)
    /\ chosen = <<"TONIGHT",
                  JoinSpace([k \in 1..Len(phrases) |-> phrases[k].text])>>
    /\ meas = <<>>
    /\ result = <<>>
    /\ error = ""

NextExtract == Extract

SpecExtract == InitExtract /\ [][NextExtract]_vars

Extracted == pc = "predict" /\ Len(meas) = 4

\* what the first sentence stating field f states, None when none does
FirstStated(ss, f) ==
    IF \E k \in 1..Len(ss) : ss[k][f] # None
    THEN ss[CHOOSE k \in 1..Len(ss) :
               ss[k][f] # None /\ \A j \in 1..(k - 1) : ss[j][f] = None][f]
    ELSE None

StatedWind(ss) ==
    IF FirstStated(ss, "kt_range") # None
    THEN Fx(Max2(FirstStated(ss, "kt_range")[1], FirstStated(ss, "kt_range")[2]))
    ELSE IF FirstStated(ss, "kt") # None THEN Fx(FirstStated(ss, "kt")[1])
    ELSE Fx(20)

StatedGust(ss) ==
    IF FirstStated(ss, "gust") # None THEN Fx(FirstStated(ss, "gust")[1])
    ELSE StatedWind(ss) + Fx(5)

StatedSeas(ss) ==
    IF FirstStated(ss, "seas_range") # None
    THEN Fx(FirstStated(ss, "seas_range")[1]
            + FirstStated(ss, "seas_range")[2]) \div 2
    ELSE IF FirstStated(ss, "seas") # None THEN Fx(FirstStated(ss, "seas")[1])
    ELSE Fx(4)

StatedPeriod(ss) ==
    IF FirstStated(ss, "per") # None THEN Fx(FirstStated(ss, "per")[1])
    ELSE Fx(6)

\* C6: per field, a range wins over a single number wherever either stands
\* and a missing phrase gives the default: wind max(A,B), else N, else 20;
\* gust N, else wind + 5; seas (A+B)/2, else N, else 4; period N, else 6.
C6_FieldPrecedence ==
    Extracted =>
      meas = <<StatedSeas(phrases), StatedWind(phrases), StatedGust(phrases),
               StatedPeriod(phrases)>>

\* the ranges example: wspd 35, seas 6.0, dpd 6.0 and the gust default 40
C6_Witness ==
    /\ Extracted
    /\ chosen[2] = "W winds 25 to 35 kt. Seas 5 to 7 ft. Wave Detail: W 6 ft at 6 seconds."
    /\ meas = <<Fx(6), Fx(35), Fx(40), Fx(6)>>

\* C7: every tuple returned has seas, wind and gust at least 0 and a
\* dominant period above 0, whatever the body, numbers of 0 included.
C7_MeasurementsInRange ==
    Extracted =>
      /\ meas[1] >= 0
      /\ meas[2] >= 0
      /\ meas[3] >= 0
      /\ meas[4] > 0

---------------------------------------------------------------------------
(* The selector on its own inputs *)

MaxPeriods == 3

Labels == {"MONDAY", "MON NIGHT", "TONIGHT", "THIS AFTERNOON", "TODAY",
           "TUESDAY"}

InitChoose ==
    /\ pc = "choose"
    /\ departure_date \in {0, 1, 4}
    /\ time_obj = <<>>
    /\ tod_hour = <<>>
    /\ cleaned = <<>>
    /\ block = <<>>
    /\ idx = 1
    /\ started = FALSE
    /\ current_label = <<>>
    /\ current_body_lines = <<>>
    /\ \E ls \in SeqsFrom1(Labels, MaxPeriods) :
          periods = [k \in 1..Len(ls) |-> <<ls[k], "body " \o ToString(k)>>]
    /\ chosen = <<>>
    /\ phrases = <<>>
    /\ meas = <<>>
    /\ result = <<>>
    /\ error = ""

NextChoose == Choose

SpecChoose == InitChoose /\ [][NextChoose]_vars

Chose == pc = "extract" /\ chosen # <<>>

UpperDayNames == <<"MON", "TUE", "WED", "THU", "FRI", "SAT", "SUN">>

\* the first period whose label starts with prefix
FirstLabelled(ps, prefix) ==
    ps[CHOOSE k \in 1..Len(ps) :
          /\ StartsWith(ps[k][1], prefix)
          /\ \A j \in 1..(k - 1) : ~StartsWith(ps[j][1], prefix)]

SomeLabelled(ps, prefix) == \E k \in 1..Len(ps) : StartsWith(ps[k][1], prefix)

=============================================================================
